---- MODULE Spec2Model ----
(***************************************************************************)
(* PianoLearning: the MIDI event timeline and practice scheduler.          *)
(*                                                                         *)
(* Two specifications share this module.                                   *)
(*   Spec    the Song-mode session of PianoLearningApp_upd_5.py: clock,    *)
(*           play / pause / stop / preview, tick, live input, file load,   *)
(*           mode switch, Jazz Theory quiz, close.                         *)
(*   SpecFn  the pure functions (ingestion, serialization, active set)     *)
(*           applied to inputs drawn from bounded sets.                    *)
(*                                                                         *)
(* Time.  Every value the code holds in seconds is held here as an integer *)
(* count of 1/9600 s, so that one MIDI tick at 480 ticks per beat and      *)
(* 500000 us per beat (1/960 s) is 10 units and sub-tick rounding is       *)
(* visible.                                                                *)
(***************************************************************************)
EXTENDS Integers, Sequences, FiniteSets, TLC

VARIABLES
    \* ---- session (PianoLearningApp.__init__, upd_5 lines 110-153) ----
    now,                  \* time.time()
    mode,                 \* mode_combo.currentText()
    midi_file,            \* "none" or the id of the loaded file
    note_events,          \* the timeline
    max_possible_score,
    current_time,         \* playback origin
    pause_time,
    is_playing,
    is_paused,
    is_previewing,
    score,
    score_label,          \* the percentage score_label shows, in tenths of a percent
    expected_notes,
    playing_notes,
    is_recording,
    recording_start_time,
    recorded_events,
    theory_item,          \* "none" or the id of the quiz item
    good_notes,           \* notes accepted by the quiz item
    required_notes,       \* pitch classes of the item not yet played
    keys_alias,           \* the session set that piano_display.expected_keys IS
    answer_label,         \* text of answer_label ("" while the answer is hidden)
    reveal_pending,       \* answer texts of the singleShot callbacks not yet fired
    written,              \* the file the recorder wrote last, if any: <<>> or <<file>>
    midi_player,          \* piano4: 0 (None) or the index of the current MidiPlayer
    player_threads,       \* piano4: every MidiPlayer thread created so far
    timer_active,         \* the 30 ms QTimer is running
    midi_input,           \* "none", "rtmidi" (callback) or "pygame" (polled)
    rtmidi_output,        \* TRUE when the rtmidi sink is attached
    midi_output,          \* TRUE when a user-selected sink is attached
    play_enabled,
    pause_enabled,
    stop_enabled,
    preview_enabled,
    closed,               \* closeEvent accepted
    fault,                \* an exception escaped a handler
    last_op,              \* the handler that ran last
    all_off_to,           \* sinks that got a note-off on every pitch in last_op
    \* ---- pure-function harness ----
    fn_src,               \* "file", "rec" or "idle": which input was drawn
    fn_file,              \* a MIDI file (input, or the output of a save)
    fn_rec,               \* a recorded event sequence
    fn_events,            \* the timeline an ingestion produced
    fn_elapsed,
    fn_active,            \* the active set a tick computed
    fn_op,                \* the function applied last
    \* ---- RandomModePlayer (random_mode_player.py lines 37-58) ----
    random_player,        \* its fields, the callbacks it has scheduled, what sounds
    callback_fired        \* the delayed callback that ran in the last step, if any

appVars == <<now, mode, midi_file, note_events, max_possible_score,
             current_time, pause_time, is_playing, is_paused, is_previewing,
             score, score_label, expected_notes, playing_notes, is_recording,
             recording_start_time, recorded_events, theory_item,
             good_notes, required_notes, keys_alias, answer_label, reveal_pending,
             written, midi_player, player_threads,
             timer_active, midi_input, rtmidi_output,
             midi_output, play_enabled, pause_enabled, stop_enabled,
             preview_enabled, closed, fault, last_op, all_off_to>>

fnVars == <<fn_src, fn_file, fn_rec, fn_events, fn_elapsed, fn_active, fn_op>>

relaxVars == <<random_player, callback_fired>>

vars == <<appVars, fnVars, relaxVars>>

----------------------------------------------------------------------------
(* Bounds *)

MaxSteps == 5          \* clock advances in a session
MaxMsgs == 3           \* messages in a drawn MIDI file
MaxTracks == 2         \* tracks in a drawn MIDI file
MaxRecorded == 3       \* events in a drawn recording
MaxElapsedHalves == 4  \* elapsed times sampled: 0, 0.5 s, ... in half seconds
ScoreCap == 2          \* scoring presses counted in a session
MaxPolled == 1         \* device messages read by one tick
MaxPending == 2        \* reveal callbacks outstanding at once
MaxCaptured == 1       \* events captured into the buffer of one recording
MaxRecSteps == 1       \* clock advances in a session with the recorder
MaxPlayers == 2        \* piano4: MidiPlayer threads created in a session
MaxPlayerSteps == 2    \* piano4: clock advances in a session
MaxQuizSteps == 2      \* clock advances in a session with the quiz
MaxCycles == 3         \* Relaxation Mode: play_next cycles begun in a session

(* Program constants *)

DefaultTempo == 500000         \* us per quarter note
DefaultTicksPerBeat == 480     \* mido.MidiFile() default resolution
GraceSeconds == 2              \* tail grace period of completion
SyntheticOffSeconds == 2       \* synthetic note-off after its onset
MillisPerSecond == 1000        \* piano4 MidiRecorder.save scale

UnitsPerSecond == 960 * 10

Seconds(n) == n * UnitsPerSecond

HalfSecond == UnitsPerSecond \div 2

----------------------------------------------------------------------------
(* Sequences *)

Last(s) == s[Len(s)]

SeqsUpTo(S, n) == UNION {[1..k -> S] : k \in 0..n}

Min(S) == CHOOSE x \in S : \A y \in S : x <= y

----------------------------------------------------------------------------
(* MIDI messages, files and note events *)

NoteOnMsg(n, v, dt) == [type |-> "note_on", note |-> n, velocity |-> v, tempo |-> 0, time |-> dt]

NoteOffMsg(n, dt) == [type |-> "note_off", note |-> n, velocity |-> 0, tempo |-> 0, time |-> dt]

SetTempoMsg(t, dt) == [type |-> "set_tempo", note |-> 0, velocity |-> 0, tempo |-> t, time |-> dt]

EndOfTrackMsg == [type |-> "end_of_track", note |-> 0, velocity |-> 0, tempo |-> 0, time |-> 0]

MidiFile(tpb, tracks) == [ticks_per_beat |-> tpb, tracks |-> tracks]

NoteEvent(ty, n, v, t) == [type |-> ty, note |-> n, velocity |-> v, time |-> t]

(* mido.tick2second: tick * tempo * 1e-6 / ticks_per_beat seconds, in units
   of 1/9600 s (exact for the tempos and resolutions drawn here). *)
Tick2Second(tick, ticks_per_beat, tempo) ==
    (tick * (tempo \div 625) * 6) \div ticks_per_beat

(* Python round(): to nearest, ties to even. *)
RoundHalfEven(n, d) ==
    LET q == n \div d
        r == n % d
    IN  IF 2 * r < d THEN q
        ELSE IF 2 * r > d THEN q + 1
        ELSE IF q % 2 = 0 THEN q ELSE q + 1

(* mido.second2tick: int(round(second / (tempo * 1e-6 / ticks_per_beat))). *)
Second2Tick(second, ticks_per_beat, tempo) ==
    RoundHalfEven(second * ticks_per_beat, 6 * (tempo \div 625))

(* variant: an insertion that puts an event before the events of its time *)
InsertByTime_before_equal(sorted, e) ==
    LET k == Cardinality({i \in DOMAIN sorted : sorted[i].time < e.time})
    IN  SubSeq(sorted, 1, k) \o <<e>> \o SubSeq(sorted, k + 1, Len(sorted))

(* sorted(..., key=lambda x: x['time']): a stable sort. *)
InsertByTime(sorted, e) ==
    LET k == Cardinality({i \in DOMAIN sorted : sorted[i].time <= e.time})
    IN  SubSeq(sorted, 1, k) \o <<e>> \o SubSeq(sorted, k + 1, Len(sorted))

RECURSIVE SortedByTime(_)
SortedByTime(s) ==
    IF s = <<>> THEN <<>>
    ELSE InsertByTime(SortedByTime(SubSeq(s, 1, Len(s) - 1)), Last(s))

IsSortedByTime(s) == \A i \in 1..(Len(s) - 1) : s[i].time <= s[i + 1].time

CountNoteOn(events) == Cardinality({i \in DOMAIN events : events[i].type = "note_on"})

----------------------------------------------------------------------------
(* Ingestion: get_tempo and process_midi_file *)

AllMsgs(file) ==
    LET RECURSIVE Cat(_)
        Cat(k) == IF k > Len(file.tracks) THEN <<>> ELSE file.tracks[k] \o Cat(k + 1)
    IN  Cat(1)

get_tempo(file) ==
    LET msgs == AllMsgs(file)
        tempos == {i \in DOMAIN msgs : msgs[i].type = "set_tempo"}
    IN  IF tempos = {} THEN DefaultTempo ELSE msgs[Min(tempos)].tempo

(* active_notes: a dict in insertion order, held as a sequence of entries *)
SetActive(active, n, sec) ==
    IF \E k \in DOMAIN active : active[k].note = n
    THEN [k \in DOMAIN active |->
            IF active[k].note = n THEN [note |-> n, start |-> sec] ELSE active[k]]
    ELSE Append(active, [note |-> n, start |-> sec])

DelActive(active, n) == SelectSeq(active, LAMBDA a : a.note # n)

(* variant: a note_on of velocity 0 taken as the start of a note *)
IngestMsg_velocity0_as_on(st, msg, ticks_per_beat) ==
    LET track_time == st.track_time + msg.time
        seconds == Tick2Second(track_time, ticks_per_beat, st.tempo)
    IN  IF msg.type = "note_on"
        THEN [st EXCEPT !.track_time = track_time,
                        !.events = Append(@, NoteEvent("note_on", msg.note, msg.velocity, seconds)),
                        !.active = SetActive(@, msg.note, seconds)]
        ELSE IF msg.type = "note_off"
        THEN [st EXCEPT !.track_time = track_time,
                        !.events = Append(@, NoteEvent("note_off", msg.note, 0, seconds)),
                        !.active = DelActive(@, msg.note)]
        ELSE IF msg.type = "set_tempo"
        THEN [st EXCEPT !.track_time = track_time, !.tempo = msg.tempo]
        ELSE [st EXCEPT !.track_time = track_time]

(* one message of the loop body, upd_5 lines 857-890 *)
IngestMsg(st, msg, ticks_per_beat) ==
    LET track_time == st.track_time + msg.time
        seconds == Tick2Second(track_time, ticks_per_beat, st.tempo)
    IN  IF msg.type = "note_on" /\ msg.velocity > 0
        THEN [st EXCEPT !.track_time = track_time,
                        !.events = Append(@, NoteEvent("note_on", msg.note, msg.velocity, seconds)),
                        !.active = SetActive(@, msg.note, seconds)]
        ELSE IF msg.type = "note_on" \/ msg.type = "note_off"
        THEN [st EXCEPT !.track_time = track_time,
                        !.events = Append(@, NoteEvent("note_off", msg.note, 0, seconds)),
                        !.active = DelActive(@, msg.note)]
        ELSE IF msg.type = "set_tempo"
        THEN [st EXCEPT !.track_time = track_time, !.tempo = msg.tempo]
        ELSE [st EXCEPT !.track_time = track_time]

RECURSIVE IngestTrack(_, _, _, _)
IngestTrack(st, track, i, ticks_per_beat) ==
    IF i > Len(track) THEN st
    ELSE IngestTrack(IngestMsg(st, track[i], ticks_per_beat), track, i + 1, ticks_per_beat)

RECURSIVE IngestTracks(_, _, _)
IngestTracks(st, file, k) ==
    IF k > Len(file.tracks) THEN st
    ELSE IngestTracks(IngestTrack([st EXCEPT !.track_time = 0], file.tracks[k], 1,
                                  file.ticks_per_beat),
                      file, k + 1)

SyntheticOffs(active) ==
    [k \in DOMAIN active |->
        NoteEvent("note_off", active[k].note, 0, active[k].start + Seconds(SyntheticOffSeconds))]

(* note_events as the loops leave it, before the sort: the events of the
   tracks in track and message order, then the synthetic note-offs *)
ParseOrder(file) ==
    LET st0 == [events |-> <<>>, tempo |-> get_tempo(file), active |-> <<>>, track_time |-> 0]
        st == IngestTracks(st0, file, 1)
    IN  st.events \o SyntheticOffs(st.active)

(* process_midi_file of PianoLearningApp_upd_5.py: the new note_events *)
process_midi_file(file) ==
    LET st0 == [events |-> <<>>, tempo |-> get_tempo(file), active |-> <<>>, track_time |-> 0]
        st == IngestTracks(st0, file, 1)
    IN  SortedByTime(st.events \o SyntheticOffs(st.active))

(* process_midi_file of piano4.py: one tempo for the file, no synthetic
   note-off *)
IngestMsgP4(st, msg, file) ==
    LET track_time == st.track_time + msg.time
        seconds == Tick2Second(track_time, file.ticks_per_beat, get_tempo(file))
    IN  IF msg.type = "note_on" /\ msg.velocity > 0
        THEN [st EXCEPT !.track_time = track_time,
                        !.events = Append(@, NoteEvent("note_on", msg.note, msg.velocity, seconds))]
        ELSE IF msg.type = "note_off" \/ (msg.type = "note_on" /\ msg.velocity = 0)
        THEN [st EXCEPT !.track_time = track_time,
                        !.events = Append(@, NoteEvent("note_off", msg.note, 0, seconds))]
        ELSE [st EXCEPT !.track_time = track_time]

RECURSIVE IngestTrackP4(_, _, _, _)
IngestTrackP4(st, track, i, file) ==
    IF i > Len(track) THEN st
    ELSE IngestTrackP4(IngestMsgP4(st, track[i], file), track, i + 1, file)

RECURSIVE IngestTracksP4(_, _, _)
IngestTracksP4(st, file, k) ==
    IF k > Len(file.tracks) THEN st
    ELSE IngestTracksP4(IngestTrackP4([st EXCEPT !.track_time = 0], file.tracks[k], 1, file),
                        file, k + 1)

process_midi_file_p4(file) ==
    SortedByTime(IngestTracksP4([events |-> <<>>, track_time |-> 0], file, 1).events)

----------------------------------------------------------------------------
(* Serialization *)

(* the note message of one recorded event, upd_5 lines 1006-1009 *)
EventMsg(event, delta_ticks) ==
    IF event.type = "note_on"
    THEN NoteOnMsg(event.note, event.velocity, delta_ticks)
    ELSE NoteOffMsg(event.note, delta_ticks)

RECURSIVE SaveLoop(_, _, _, _)
SaveLoop(sorted_events, i, prev_time, ticks_per_beat) ==
    IF i > Len(sorted_events) THEN <<>>
    ELSE LET current_ticks == Second2Tick(sorted_events[i].time, ticks_per_beat, DefaultTempo)
             delta_ticks == current_ticks - prev_time
         IN  <<EventMsg(sorted_events[i], delta_ticks)>>
                \o SaveLoop(sorted_events, i + 1, current_ticks, ticks_per_beat)

(* save_recording_to_midi of upd_5: the file written *)
save_recording_to_midi(events) ==
    MidiFile(DefaultTicksPerBeat,
             << <<SetTempoMsg(DefaultTempo, 0)>>
                  \o SaveLoop(SortedByTime(events), 1, 0, DefaultTicksPerBeat)
                  \o <<EndOfTrackMsg>> >>)

RECURSIVE SaveLoopP4(_, _, _)
SaveLoopP4(sorted_events, i, last_time) ==
    IF i > Len(sorted_events) THEN <<>>
    ELSE LET delta_time == ((sorted_events[i].time - last_time) * MillisPerSecond)
                              \div UnitsPerSecond
         IN  <<EventMsg(sorted_events[i], delta_time)>>
                \o SaveLoopP4(sorted_events, i + 1, sorted_events[i].time)

(* MidiRecorder.save of piano4.py: delta times written in milliseconds, no
   tempo message; mid.save closes the track with an end_of_track *)
MidiRecorder_save(events) ==
    MidiFile(DefaultTicksPerBeat,
             << SaveLoopP4(SortedByTime(events), 1, 0) \o <<EndOfTrackMsg>> >>)

(* the loop of SongCreator.export_to_midi, song_creator.py lines 311-318:
   each difference of times is converted on its own *)
RECURSIVE ExportLoop(_, _, _, _)
ExportLoop(events, i, prev_time, ticks_per_beat) ==
    IF i > Len(events) THEN <<>>
    ELSE LET ticks == Second2Tick(events[i].time - prev_time, ticks_per_beat, DefaultTempo)
         IN  <<EventMsg(events[i], ticks)>>
                \o ExportLoop(events, i + 1, events[i].time, ticks_per_beat)

(* SongCreator.export_to_midi: the file written for the events of the song *)
export_to_midi(events) ==
    MidiFile(DefaultTicksPerBeat,
             << <<SetTempoMsg(DefaultTempo, 0)>>
                  \o ExportLoop(SortedByTime(events), 1, 0, DefaultTicksPerBeat)
                  \o <<EndOfTrackMsg>> >>)

----------------------------------------------------------------------------
(* The active set of update_playback, upd_5 lines 488-500 *)

RECURSIVE is_still_playing(_, _, _, _)
is_still_playing(events, j, n, elapsed) ==
    IF j > Len(events) THEN TRUE
    ELSE IF events[j].type = "note_off" /\ events[j].note = n /\ events[j].time <= elapsed
    THEN FALSE
    ELSE IF events[j].type = "note_off" /\ events[j].note = n /\ events[j].time > elapsed
    THEN TRUE
    ELSE is_still_playing(events, j + 1, n, elapsed)

(* variant: a note is taken to start only after its onset *)
currently_playing_after_onset(events, elapsed) ==
    {events[i].note : i \in {k \in DOMAIN events :
        /\ events[k].type = "note_on"
        /\ events[k].time < elapsed
        /\ is_still_playing(events, k, events[k].note, elapsed)}}

currently_playing(events, elapsed) ==
    {events[i].note : i \in {k \in DOMAIN events :
        /\ events[k].type = "note_on"
        /\ events[k].time <= elapsed
        /\ is_still_playing(events, k, events[k].note, elapsed)}}

----------------------------------------------------------------------------
(* Inputs of the pure-function harness *)

FilePitch == {60, 64}

MsgAlphabet ==
    {NoteOnMsg(p, 90, 0) : p \in FilePitch}
        \union {NoteOnMsg(60, 90, 960)}
        \union {NoteOffMsg(p, 960) : p \in FilePitch}
        \union {NoteOffMsg(60, 0)}

(* files with a tempo change, a velocity-0 note_on and a two-note melody *)
FixtureFiles ==
    {MidiFile(DefaultTicksPerBeat,
              << <<SetTempoMsg(250000, 0), NoteOnMsg(60, 90, 0), NoteOffMsg(60, 960)>> >>),
     MidiFile(DefaultTicksPerBeat,
              << <<NoteOnMsg(60, 90, 0), SetTempoMsg(1000000, 960), NoteOffMsg(60, 960)>> >>),
     MidiFile(DefaultTicksPerBeat,
              << <<NoteOnMsg(60, 90, 0), NoteOnMsg(60, 0, 960)>> >>),
     MidiFile(DefaultTicksPerBeat,
              << <<NoteOnMsg(60, 90, 960), SetTempoMsg(250000, 0), NoteOffMsg(60, 960)>> >>),
     MidiFile(DefaultTicksPerBeat,
              << <<SetTempoMsg(250000, 0), NoteOnMsg(60, 90, 960)>>,
                 <<NoteOnMsg(64, 90, 960)>> >>),
     MidiFile(DefaultTicksPerBeat,
              << <<NoteOnMsg(60, 90, 0), NoteOffMsg(60, 960),
                   NoteOnMsg(64, 90, 0), NoteOffMsg(64, 960)>> >>)}

(* the ways of cutting n messages into k consecutive tracks *)
Cuts(n, k) ==
    {c \in [1..(k - 1) -> 0..n] : \A t \in 1..(k - 2) : c[t] <= c[t + 1]}

SplitAt(msgs, c, k) ==
    [t \in 1..k |-> SubSeq(msgs, (IF t = 1 THEN 0 ELSE c[t - 1]) + 1,
                                 IF t = k THEN Len(msgs) ELSE c[t])]

(* lists of exactly k tracks holding at most b messages in all *)
TrackLists(k, b) ==
    UNION {{SplitAt(msgs, c, k) : c \in Cuts(Len(msgs), k)} : msgs \in SeqsUpTo(MsgAlphabet, b)}

(* files of at most n tracks holding at most b messages in all *)
FnFiles(n, b) ==
    {MidiFile(DefaultTicksPerBeat, tl) : tl \in UNION {TrackLists(k, b) : k \in 1..n}}
        \union FixtureFiles

RecTimes == {0, 5, 15, 3840}

RecEventSet ==
    {NoteEvent("note_on", p, 100, t) : p \in FilePitch, t \in RecTimes}
        \union {NoteEvent("note_off", p, 0, t) : p \in FilePitch, t \in RecTimes}

(* recordings: events in arrival order, so in ascending time *)
Recordings(n) == SeqsUpTo(RecEventSet, n)

FnRecordings(n) == {r \in Recordings(n) : r # <<>> /\ IsSortedByTime(r)}

ElapsedSamples == {k * HalfSecond : k \in 0..MaxElapsedHalves}

NoFile == MidiFile(DefaultTicksPerBeat, <<>>)

FnIdle ==
    /\ fn_src = "idle"
    /\ fn_file = NoFile
    /\ fn_rec = <<>>
    /\ fn_events = <<>>
    /\ fn_elapsed = 0
    /\ fn_active = {}
    /\ fn_op = "none"

FnDrawn ==
    /\ \/ fn_src = "file" /\ fn_file \in FnFiles(MaxTracks, MaxMsgs) /\ fn_rec = <<>>
       \/ fn_src = "rec" /\ fn_file = NoFile /\ fn_rec \in FnRecordings(MaxRecorded)
    /\ fn_events = <<>>
    /\ fn_elapsed = 0
    /\ fn_active = {}
    /\ fn_op = "drawn"

(* process_midi_file (upd_5) applied to a drawn or a just-saved file *)
FnProcessMidiFile ==
    /\ \/ fn_src = "file" /\ fn_op = "drawn"
       \/ fn_op = "save_recording_to_midi"
    /\ fn_events' = process_midi_file(fn_file)
    /\ fn_op' = "process_midi_file"
    /\ UNCHANGED <<fn_src, fn_file, fn_rec, fn_elapsed, fn_active>>
    /\ UNCHANGED <<appVars, relaxVars>>

(* process_midi_file (piano4) applied to a drawn or a just-saved file *)
FnProcessMidiFileP4 ==
    /\ \/ fn_src = "file" /\ fn_op = "drawn"
       \/ fn_op = "MidiRecorder_save"
    /\ fn_events' = process_midi_file_p4(fn_file)
    /\ fn_op' = "process_midi_file_p4"
    /\ UNCHANGED <<fn_src, fn_file, fn_rec, fn_elapsed, fn_active>>
    /\ UNCHANGED <<appVars, relaxVars>>

FnSaveRecording ==
    /\ fn_src = "rec" /\ fn_op = "drawn"
    /\ fn_file' = save_recording_to_midi(fn_rec)
    /\ fn_op' = "save_recording_to_midi"
    /\ UNCHANGED <<fn_src, fn_rec, fn_events, fn_elapsed, fn_active>>
    /\ UNCHANGED <<appVars, relaxVars>>

FnMidiRecorderSave ==
    /\ fn_src = "rec" /\ fn_op = "drawn"
    /\ fn_file' = MidiRecorder_save(fn_rec)
    /\ fn_op' = "MidiRecorder_save"
    /\ UNCHANGED <<fn_src, fn_rec, fn_events, fn_elapsed, fn_active>>
    /\ UNCHANGED <<appVars, relaxVars>>

FnExportToMidi ==
    /\ fn_src = "rec" /\ fn_op = "drawn"
    /\ fn_file' = export_to_midi(fn_rec)
    /\ fn_op' = "export_to_midi"
    /\ UNCHANGED <<fn_src, fn_rec, fn_events, fn_elapsed, fn_active>>
    /\ UNCHANGED <<appVars, relaxVars>>

(* the active-set computation of a Song-mode tick on an ingested timeline *)
FnUpdatePlayback(elapsed) ==
    /\ fn_src = "file" /\ fn_op = "process_midi_file"
    /\ fn_active' = currently_playing(fn_events, elapsed)
    /\ fn_elapsed' = elapsed
    /\ fn_op' = "update_playback"
    /\ UNCHANGED <<fn_src, fn_file, fn_rec, fn_events>>
    /\ UNCHANGED <<appVars, relaxVars>>

NextFn ==
    \/ FnProcessMidiFile
    \/ FnProcessMidiFileP4
    \/ FnSaveRecording
    \/ FnMidiRecorderSave
    \/ FnExportToMidi
    \/ \E elapsed \in ElapsedSamples : FnUpdatePlayback(elapsed)

----------------------------------------------------------------------------
(* The session of PianoLearningApp_upd_5.py.

   Handlers run to completion on the GUI thread, so each is one step.  A
   handler is an operator from the session fields before to the session
   fields after; where the code calls another handler the operator does
   too.  The keyboard widget keeps the very set object it is handed
   (set_expected_keys) and empties it in place (reset), so keys_alias
   records which session set that object is. *)

Pitch == {64}

Modes == {"Song Mode", "Jazz Theory Mode"}

SongFiles == {"single", "empty"}

FileContent(f) ==
    IF f = "scenarioA"
    THEN MidiFile(DefaultTicksPerBeat,
                  << <<NoteOnMsg(60, 90, 0), NoteOffMsg(60, 960),
                       NoteOnMsg(64, 90, 0), NoteOffMsg(64, 960)>> >>)
    ELSE IF f = "single"
    THEN MidiFile(DefaultTicksPerBeat, << <<NoteOnMsg(64, 90, 0), NoteOffMsg(64, 960)>> >>)
    ELSE IF f = "held"
    THEN MidiFile(DefaultTicksPerBeat, << <<NoteOnMsg(64, 90, 0), NoteOffMsg(64, 1920)>> >>)
    ELSE MidiFile(DefaultTicksPerBeat, << <<EndOfTrackMsg>> >>)

TheoryItems == {"Emaj7", "Cmin7"}

(* Theory.get_chord: scale_id 4 with CHORDS_MIDI[0] = [4, 3, 4], and
   scale_id 0 with CHORDS_MIDI[1] = [3, 4, 3] *)
TheoryNotes(item) == IF item = "Emaj7" THEN {4, 8, 11, 15} ELSE {0, 3, 7, 10}

Octaves == {36, 48, 60, 72}

Cur ==
    [now |-> now, mode |-> mode, midi_file |-> midi_file, note_events |-> note_events,
     max_possible_score |-> max_possible_score, current_time |-> current_time,
     pause_time |-> pause_time, is_playing |-> is_playing, is_paused |-> is_paused,
     is_previewing |-> is_previewing, score |-> score, score_label |-> score_label,
     expected_notes |-> expected_notes,
     playing_notes |-> playing_notes, is_recording |-> is_recording,
     recording_start_time |-> recording_start_time, recorded_events |-> recorded_events,
     theory_item |-> theory_item, good_notes |-> good_notes,
     required_notes |-> required_notes, keys_alias |-> keys_alias,
     answer_label |-> answer_label, reveal_pending |-> reveal_pending,
     written |-> written,
     midi_player |-> midi_player, player_threads |-> player_threads,
     timer_active |-> timer_active, midi_input |-> midi_input,
     rtmidi_output |-> rtmidi_output, midi_output |-> midi_output,
     play_enabled |-> play_enabled, pause_enabled |-> pause_enabled,
     stop_enabled |-> stop_enabled, preview_enabled |-> preview_enabled,
     closed |-> closed, fault |-> fault, last_op |-> last_op, all_off_to |-> all_off_to]

Commit(S) ==
    /\ now' = S.now
    /\ mode' = S.mode
    /\ midi_file' = S.midi_file
    /\ note_events' = S.note_events
    /\ max_possible_score' = S.max_possible_score
    /\ current_time' = S.current_time
    /\ pause_time' = S.pause_time
    /\ is_playing' = S.is_playing
    /\ is_paused' = S.is_paused
    /\ is_previewing' = S.is_previewing
    /\ score' = S.score
    /\ score_label' = S.score_label
    /\ expected_notes' = S.expected_notes
    /\ playing_notes' = S.playing_notes
    /\ is_recording' = S.is_recording
    /\ recording_start_time' = S.recording_start_time
    /\ recorded_events' = S.recorded_events
    /\ theory_item' = S.theory_item
    /\ good_notes' = S.good_notes
    /\ required_notes' = S.required_notes
    /\ keys_alias' = S.keys_alias
    /\ answer_label' = S.answer_label
    /\ reveal_pending' = S.reveal_pending
    /\ written' = S.written
    /\ midi_player' = S.midi_player
    /\ player_threads' = S.player_threads
    /\ timer_active' = S.timer_active
    /\ midi_input' = S.midi_input
    /\ rtmidi_output' = S.rtmidi_output
    /\ midi_output' = S.midi_output
    /\ play_enabled' = S.play_enabled
    /\ pause_enabled' = S.pause_enabled
    /\ stop_enabled' = S.stop_enabled
    /\ preview_enabled' = S.preview_enabled
    /\ closed' = S.closed
    /\ fault' = S.fault
    /\ last_op' = S.last_op
    /\ all_off_to' = S.all_off_to
    /\ UNCHANGED <<fnVars, relaxVars>>

(* entry of a handler: nothing sent yet *)
Enter(S, op) == [S EXCEPT !.last_op = op, !.all_off_to = {}]

AttachedSinks(S) ==
    (IF S.midi_output THEN {"midi_output"} ELSE {})
        \union (IF S.rtmidi_output THEN {"rtmidi_output"} ELSE {})

(* all_notes_off, lines 945-953 *)
all_notes_off(S) == [S EXCEPT !.all_off_to = AttachedSinks(S)]

(* PianoKeyboardWidget.reset, lines 1211-1214: expected_keys.clear() empties
   the aliased session set in place *)
piano_display_reset(S) ==
    IF S.keys_alias = "expected_notes" THEN [S EXCEPT !.expected_notes = {}]
    ELSE IF S.keys_alias = "good_notes" THEN [S EXCEPT !.good_notes = {}]
    ELSE S

(* self.expected_notes = set(): a new object, the widget keeps the old one *)
FreshExpectedNotes(S) ==
    [S EXCEPT !.expected_notes = {},
              !.keys_alias = IF @ = "expected_notes" THEN "none" ELSE @]

(* variant: a stop that acts only while the song is playing *)
stop_playing_if_playing(S) ==
    IF ~S.is_playing THEN S
    ELSE LET S1 == FreshExpectedNotes([S EXCEPT !.is_playing = FALSE, !.is_paused = FALSE])
             S2 == all_notes_off(piano_display_reset(S1))
         IN  [S2 EXCEPT !.play_enabled = TRUE, !.pause_enabled = FALSE, !.stop_enabled = FALSE,
                        !.preview_enabled = (S2.midi_file # "none")]

(* variant: a two-stage stop, the first call on a playing song only halts it *)
stop_playing_two_stage(S) ==
    IF S.is_playing
    THEN [S EXCEPT !.is_playing = FALSE, !.is_paused = TRUE]
    ELSE LET S1 == FreshExpectedNotes([S EXCEPT !.is_playing = FALSE, !.is_paused = FALSE])
             S2 == all_notes_off(piano_display_reset(S1))
         IN  [S2 EXCEPT !.play_enabled = TRUE, !.pause_enabled = FALSE, !.stop_enabled = FALSE,
                        !.preview_enabled = (S2.midi_file # "none")]

(* stop_playing, lines 932-943 *)
stop_playing(S) ==
    LET S1 == FreshExpectedNotes([S EXCEPT !.is_playing = FALSE, !.is_paused = FALSE])
        S2 == all_notes_off(piano_display_reset(S1))
    IN  [S2 EXCEPT !.play_enabled = TRUE, !.pause_enabled = FALSE, !.stop_enabled = FALSE,
                   !.preview_enabled = (S2.midi_file # "none")]

(* stop_playing when the first send of all_notes_off raises (closed port,
   write error): no statement catches it, so lines 939-943 are not run *)
stop_playing_sink_fails(S) ==
    piano_display_reset(FreshExpectedNotes([S EXCEPT !.is_playing = FALSE,
                                                     !.is_paused = FALSE]))

(* variant: resume without shifting the origin by the paused time *)
start_playing_unshifted(S) ==
    IF S.midi_file = "none" THEN S
    ELSE LET S1 == IF S.is_paused
                   THEN [S EXCEPT !.is_paused = FALSE]
                   ELSE FreshExpectedNotes([S EXCEPT !.current_time = S.now, !.score = 0])
         IN  [S1 EXCEPT !.is_playing = TRUE, !.play_enabled = FALSE, !.pause_enabled = TRUE,
                        !.stop_enabled = TRUE, !.preview_enabled = FALSE]

(* start_playing, lines 904-921 *)
start_playing(S) ==
    IF S.midi_file = "none" THEN S
    ELSE LET S1 == IF S.is_paused
                   THEN [S EXCEPT !.is_paused = FALSE,
                                  !.current_time = @ + (S.now - S.pause_time)]
                   ELSE FreshExpectedNotes([S EXCEPT !.current_time = S.now, !.score = 0])
         IN  [S1 EXCEPT !.is_playing = TRUE, !.play_enabled = FALSE, !.pause_enabled = TRUE,
                        !.stop_enabled = TRUE, !.preview_enabled = FALSE]

(* variant: a pause that clears the score *)
pause_playing_resetting(S) ==
    IF S.is_playing
    THEN [S EXCEPT !.is_playing = FALSE, !.is_paused = TRUE, !.pause_time = S.now,
                   !.score = 0, !.play_enabled = TRUE, !.pause_enabled = FALSE]
    ELSE S

(* pause_playing, lines 923-930 *)
pause_playing(S) ==
    IF S.is_playing
    THEN [S EXCEPT !.is_playing = FALSE, !.is_paused = TRUE, !.pause_time = S.now,
                   !.play_enabled = TRUE, !.pause_enabled = FALSE]
    ELSE S

(* variant: a preview toggle that does not look for a loaded file *)
toggle_preview_unguarded(S) ==
    IF S.is_previewing
    THEN stop_playing([S EXCEPT !.is_previewing = FALSE])
    ELSE start_playing([S EXCEPT !.is_previewing = TRUE])

(* toggle_preview, lines 955-967 *)
toggle_preview(S) ==
    IF S.midi_file = "none" THEN S
    ELSE IF S.is_previewing
    THEN stop_playing([S EXCEPT !.is_previewing = FALSE])
    ELSE start_playing([S EXCEPT !.is_previewing = TRUE])

(* load_midi_file, lines 833-842, for a file that parses *)
load_midi_file(S, f) ==
    LET events == process_midi_file(FileContent(f))
        S1 == [S EXCEPT !.midi_file = f, !.note_events = events,
                        !.max_possible_score = CountNoteOn(events)]
    IN  [stop_playing(S1) EXCEPT !.play_enabled = TRUE, !.preview_enabled = TRUE]

(* switch_mode, lines 333-380 *)
switch_mode(S, m) ==
    LET S1 == piano_display_reset(all_notes_off([S EXCEPT !.mode = m]))
    IN  [S1 EXCEPT !.keys_alias = "none"]

(* reveal_answer, lines 605-607 *)
reveal_answer(S, answer_text) ==
    IF S.theory_item # "none" /\ S.mode = "Jazz Theory Mode"
    THEN [S EXCEPT !.answer_label = answer_text]
    ELSE S

(* generate_theory_item, lines 562-592; time.sleep(1) while the item sounds;
   the answer text of a chord is its question text, here the item's name *)
generate_theory_item(S, item) ==
    IF S.mode # "Jazz Theory Mode" THEN S
    ELSE [S EXCEPT !.theory_item = item,
                   !.good_notes = {n + o : n \in TheoryNotes(item), o \in Octaves},
                   !.required_notes = TheoryNotes(item),
                   !.answer_label = "",
                   !.keys_alias = "good_notes",
                   !.now = IF S.rtmidi_output THEN @ + Seconds(1) ELSE @,
                   !.reveal_pending = Append(@, item)]

(* the recording branch of handle_note_on / handle_note_off *)
Capture(S, ty, n, v) ==
    IF S.is_recording
    THEN [S EXCEPT !.recorded_events =
                        Append(@, NoteEvent(ty, n, v, S.now - S.recording_start_time))]
    ELSE S

(* the text f"{percentage:.1f}" of a quotient: to the nearest tenth, ties to
   the even tenth *)
OneDecimal(n, d) == RoundHalfEven(10 * n, d)

(* update_score, lines 1017-1020 *)
update_score(S) ==
    IF S.max_possible_score > 0
    THEN [S EXCEPT !.score_label = OneDecimal(100 * S.score, S.max_possible_score)]
    ELSE S

(* variant: scoring that does not look at is_previewing *)
handle_note_on_scoring_preview(S, n, velocity) ==
    LET S1 == [Capture(S, "note_on", n, velocity) EXCEPT !.playing_notes = @ \union {n}]
    IN  IF S1.mode = "Jazz Theory Mode" /\ S1.theory_item # "none"
        THEN IF n \in S1.good_notes
             THEN LET left == {c \in S1.required_notes : \A o \in Octaves : n # c + o}
                  IN  IF left = {}
                      THEN [reveal_answer(S1, IF S1.answer_label # "" THEN S1.answer_label
                                                  ELSE S1.theory_item)
                               EXCEPT !.required_notes = left, !.timer_active = FALSE,
                                      !.keys_alias = "none"]
                      ELSE [S1 EXCEPT !.required_notes = left]
             ELSE S1
        ELSE IF S1.is_playing
        THEN IF n \in S1.expected_notes THEN update_score([S1 EXCEPT !.score = @ + 1]) ELSE S1
        ELSE S1

(* handle_note_on, lines 760-799 *)
handle_note_on(S, n, velocity) ==
    LET S1 == [Capture(S, "note_on", n, velocity) EXCEPT !.playing_notes = @ \union {n}]
    IN  IF S1.mode = "Jazz Theory Mode" /\ S1.theory_item # "none"
        THEN IF n \in S1.good_notes
             THEN LET left == {c \in S1.required_notes : \A o \in Octaves : n # c + o}
                  IN  IF left = {}
                      THEN [reveal_answer(S1, IF S1.answer_label # "" THEN S1.answer_label
                                                  ELSE S1.theory_item)
                               EXCEPT !.required_notes = left, !.timer_active = FALSE,
                                      !.keys_alias = "none"]
                      ELSE [S1 EXCEPT !.required_notes = left]
             ELSE S1
        ELSE IF S1.is_playing /\ ~S1.is_previewing
        THEN IF n \in S1.expected_notes THEN update_score([S1 EXCEPT !.score = @ + 1]) ELSE S1
        ELSE S1

(* handle_note_off, lines 801-823 *)
handle_note_off(S, n) ==
    [Capture(S, "note_off", n, 0) EXCEPT !.playing_notes = @ \ {n}]

(* one device message: status 0x90 with velocity 0 is a note-off *)
Dispatch(S, ev) ==
    IF ev.type = "note_on" /\ ev.velocity > 0
    THEN handle_note_on(S, ev.note, ev.velocity)
    ELSE handle_note_off(S, ev.note)

RECURSIVE DispatchAll(_, _, _)
DispatchAll(S, evs, i) ==
    IF i > Len(evs) THEN S ELSE DispatchAll(Dispatch(S, evs[i]), evs, i + 1)

(* the pitches the preview branch of the tick sends a note-on for, lines
   501-506: active in the timeline and not in playing_notes *)
preview_note_ons(S, elapsed) ==
    IF S.is_previewing THEN currently_playing(S.note_events, elapsed) \ S.playing_notes
    ELSE {}

(* the pitches the preview branch of the tick sends a note-off for, lines
   508-514: in playing_notes and not active in the timeline *)
preview_note_offs(S, elapsed) ==
    IF S.is_previewing THEN S.playing_notes \ currently_playing(S.note_events, elapsed)
    ELSE {}

(* the Song Mode branch of update_playback, lines 484-523 *)
song_tick(S) ==
    LET elapsed == IF ~S.is_paused THEN S.now - S.current_time
                   ELSE S.pause_time - S.current_time
        playing == currently_playing(S.note_events, elapsed)
        sounding == IF S.is_previewing THEN S.playing_notes \union playing
                    ELSE S.playing_notes
        notes_to_turn_off == sounding \ playing
        S1 == [S EXCEPT !.playing_notes = IF S.is_previewing THEN sounding \ notes_to_turn_off
                                          ELSE @,
                        !.expected_notes = playing,
                        !.keys_alias = "expected_notes"]
    IN  IF S1.note_events = <<>> THEN [S1 EXCEPT !.fault = TRUE]
        ELSE IF elapsed > Last(S1.note_events).time + Seconds(GraceSeconds)
        THEN [stop_playing(S1) EXCEPT !.is_previewing = FALSE]
        ELSE S1

(* update_playback, lines 465-529: polled input first, then the mode branch *)
update_playback(S, polled) ==
    LET S1 == DispatchAll(S, polled, 1)
    IN  IF S1.mode = "Song Mode" /\ S1.is_playing /\ S1.midi_file # "none"
        THEN song_tick(S1)
        ELSE S1

(* variant: a start of recording that keeps the buffer of the last one *)
toggle_recording_keeping_buffer(S, path_chosen) ==
    IF S.is_recording
    THEN LET S1 == [S EXCEPT !.is_recording = FALSE]
         IN  IF S1.recorded_events # <<>> /\ path_chosen
             THEN [S1 EXCEPT !.written = <<save_recording_to_midi(S1.recorded_events)>>]
             ELSE S1
    ELSE [S EXCEPT !.is_recording = TRUE, !.recording_start_time = S.now]

(* toggle_recording, lines 969-981, with save_recording_to_midi, 983-1015;
   path_chosen: the file dialog returned a path *)
toggle_recording(S, path_chosen) ==
    IF S.is_recording
    THEN LET S1 == [S EXCEPT !.is_recording = FALSE]
         IN  IF S1.recorded_events # <<>> /\ path_chosen
             THEN [S1 EXCEPT !.written = <<save_recording_to_midi(S1.recorded_events)>>]
             ELSE S1
    ELSE [S EXCEPT !.is_recording = TRUE, !.recorded_events = <<>>,
                   !.recording_start_time = S.now]

(* closeEvent, lines 1035-1054: ports are closed, nothing is sent *)
closeEvent(S) == [S EXCEPT !.closed = TRUE]

----------------------------------------------------------------------------
(* Steps of the session *)

DeviceEvents ==
    {[type |-> "note_on", note |-> p, velocity |-> 100] : p \in Pitch}
        \union {[type |-> "note_off", note |-> p, velocity |-> 0] : p \in Pitch}

Running == ~closed /\ ~fault

NoCallback == [kind |-> "none", note |-> 0, cycle |-> 0]

(* RandomModePlayer.__init__, random_mode_player.py lines 37-58.  The session
   above never enters Relaxation Mode: the random_player.stop() of switch_mode
   (upd_5 lines 348, 358) finds the player stopped with empty note sets and
   changes nothing. *)
RelaxIdle ==
    /\ random_player = [is_playing |-> FALSE,
                        current_chord_notes |-> {},
                        current_improv_notes |-> {},
                        cycle |-> 0,         \* play_next cycles begun so far
                        pending |-> {},      \* QTimer.singleShot callbacks not yet fired
                        sounding |-> {}]     \* pitches sent a note-on and no note-off since
    /\ callback_fired = NoCallback

AppInit ==
    /\ now = 0
    /\ mode = "Song Mode"
    /\ midi_file = "none"
    /\ note_events = <<>>
    /\ max_possible_score = 0
    /\ current_time = 0
    /\ pause_time = 0
    /\ is_playing = FALSE
    /\ is_paused = FALSE
    /\ is_previewing = FALSE
    /\ score = 0
    /\ score_label = 0
    /\ expected_notes = {}
    /\ playing_notes = {}
    /\ is_recording = FALSE
    /\ recording_start_time = 0
    /\ recorded_events = <<>>
    /\ theory_item = "none"
    /\ good_notes = {}
    /\ required_notes = {}
    /\ keys_alias = "none"
    /\ answer_label = ""
    /\ reveal_pending = <<>>
    /\ written = <<>>
    /\ midi_player = 0
    /\ player_threads = <<>>
    /\ timer_active = TRUE
    /\ midi_input \in {"rtmidi", "pygame"}
    /\ rtmidi_output = TRUE
    /\ midi_output = FALSE
    /\ play_enabled = TRUE
    /\ pause_enabled = FALSE
    /\ stop_enabled = FALSE
    /\ preview_enabled = TRUE
    /\ closed = FALSE
    /\ fault = FALSE
    /\ last_op = "init"
    /\ all_off_to = {}

(* real time passes between handlers *)
Advance ==
    /\ Running
    /\ now < Seconds(MaxSteps)
    /\ now' = now + Seconds(1)
    /\ UNCHANGED <<mode, midi_file, note_events, max_possible_score, current_time,
                   pause_time, is_playing, is_paused, is_previewing, score, score_label,
                   expected_notes, playing_notes, is_recording, recording_start_time,
                   recorded_events, theory_item, good_notes, required_notes, keys_alias,
                   answer_label, reveal_pending, written, midi_player, player_threads,
                   timer_active, midi_input, rtmidi_output, midi_output, play_enabled,
                   pause_enabled, stop_enabled, preview_enabled, closed, fault>>
    /\ last_op' = "time_passes"
    /\ all_off_to' = {}
    /\ UNCHANGED <<fnVars, relaxVars>>

(* the QTimer fires (timer.timeout -> update_playback) *)
PolledBatches ==
    IF midi_input = "pygame" THEN SeqsUpTo(DeviceEvents, MaxPolled) ELSE {<<>>}

TickWith(polled) ==
    /\ Running
    /\ timer_active
    /\ polled \in PolledBatches
    /\ LET S == update_playback(Enter(Cur, "update_playback"), polled)
       IN  S.score <= ScoreCap /\ Len(S.recorded_events) <= MaxCaptured /\ Commit(S)

Tick == \E polled \in SeqsUpTo(DeviceEvents, MaxPolled) : TickWith(polled)

(* the rtmidi input thread delivers a message (midi_callback, lines 692-703) *)
MidiCallbackWith(ev) ==
    /\ Running
    /\ midi_input = "rtmidi"
    /\ LET S == Dispatch(Enter(Cur, "midi_callback"), ev)
       IN  S.score <= ScoreCap /\ Len(S.recorded_events) <= MaxCaptured /\ Commit(S)

MidiCallback == \E ev \in DeviceEvents : MidiCallbackWith(ev)

PlayButton ==
    /\ Running
    /\ mode = "Song Mode" /\ play_enabled
    /\ Commit(start_playing(Enter(Cur, "start_playing")))

PauseButton ==
    /\ Running
    /\ mode = "Song Mode" /\ pause_enabled
    /\ Commit(pause_playing(Enter(Cur, "pause_playing")))

StopButton ==
    /\ Running
    /\ mode = "Song Mode" /\ stop_enabled
    /\ Commit(stop_playing(Enter(Cur, "stop_playing")))

PreviewButton ==
    /\ Running
    /\ mode = "Song Mode" /\ preview_enabled
    /\ Commit(toggle_preview(Enter(Cur, "toggle_preview")))

LoadMidiFile ==
    /\ Running
    /\ \E f \in SongFiles : Commit(load_midi_file(Enter(Cur, "load_midi_file"), f))

(* mido.MidiFile(file_path) raises: the except clause only reports it *)
LoadMidiFileFails ==
    /\ Running
    /\ Commit(Enter(Cur, "load_midi_file_failed"))

SwitchMode ==
    /\ Running
    /\ \E m \in Modes \ {mode} : Commit(switch_mode(Enter(Cur, "switch_mode"), m))

NextButtonWithin(span) ==
    /\ Running
    /\ mode = "Jazz Theory Mode"
    /\ now < Seconds(span)
    /\ Len(reveal_pending) < MaxPending
    /\ \E item \in TheoryItems :
          Commit(generate_theory_item(Enter(Cur, "generate_theory_item"), item))

NextButton == NextButtonWithin(MaxQuizSteps)

(* a QTimer.singleShot of generate_theory_item (line 592) fires: callbacks of
   equal delay fire in the order they were scheduled, each at some turn of the
   event loop after the handler that scheduled it *)
RevealFires ==
    /\ Running
    /\ reveal_pending # <<>>
    /\ LET S  == Enter(Cur, "reveal_answer")
           S1 == reveal_answer([S EXCEPT !.reveal_pending = Tail(@)], Head(reveal_pending))
       IN  Commit(S1)

CloseWindow ==
    /\ Running
    /\ Commit(closeEvent(Enter(Cur, "closeEvent")))

(* the timer, the input device, the playback controls and the mode selector *)
SessionStep ==
    \/ Tick
    \/ MidiCallback
    \/ PlayButton
    \/ PauseButton
    \/ StopButton
    \/ PreviewButton
    \/ LoadMidiFile
    \/ SwitchMode

(* a session in which the quiz's Next button is not pressed *)
Next ==
    \/ Advance
    \/ SessionStep
    \/ LoadMidiFileFails
    \/ CloseWindow

(* a session with the Jazz Theory quiz, over a shorter span and with the
   window left open *)
AdvanceQuiz == now < Seconds(MaxQuizSteps) /\ Advance

NextQuiz ==
    \/ AdvanceQuiz
    \/ SessionStep
    \/ NextButton
    \/ RevealFires

Init == AppInit /\ FnIdle /\ RelaxIdle

Spec == Init /\ [][Next]_vars

SpecQuiz == Init /\ [][NextQuiz]_vars

(* the same session over a span one second shorter: time for one question *)
AdvanceQuizOne == now < Seconds(MaxQuizSteps - 1) /\ Advance

NextButtonOne == NextButtonWithin(MaxQuizSteps - 1)

NextQuizOne ==
    \/ AdvanceQuizOne
    \/ SessionStep
    \/ NextButtonOne
    \/ RevealFires

SpecQuizOne == Init /\ [][NextQuizOne]_vars

AdvanceRec == now < Seconds(MaxRecSteps) /\ Advance

RecordButton ==
    /\ Running
    /\ mode = "Song Mode"
    /\ \E path_chosen \in BOOLEAN :
          Commit(toggle_recording(Enter(Cur, "toggle_recording"), path_chosen))

(* the session with the recorder: notes arrive, recordings start and stop *)
NextRec ==
    \/ AdvanceRec
    \/ Tick
    \/ MidiCallback
    \/ RecordButton

SpecRec == Init /\ [][NextRec]_vars

(* Stop pressed while the port of an attached sink fails *)
StopButtonSinkFails ==
    /\ Running
    /\ mode = "Song Mode" /\ stop_enabled
    /\ AttachedSinks(Cur) # {}
    /\ Commit(stop_playing_sink_fails(Enter(Cur, "stop_playing")))

(* the session with a sink whose port may fail *)
NextSink ==
    \/ AdvanceRec
    \/ Tick
    \/ PlayButton
    \/ PauseButton
    \/ StopButton
    \/ StopButtonSinkFails
    \/ LoadMidiFile

SpecSink == Init /\ [][NextSink]_vars

InitFn ==
    /\ AppInit /\ midi_input = "rtmidi" /\ rtmidi_output
    /\ FnDrawn
    /\ RelaxIdle

SpecFn == InitFn /\ [][NextFn]_vars

----------------------------------------------------------------------------
(* The piano4.py application: the same fields, a playback thread for preview *)

(* MidiPlayer.__init__, piano4 lines 21-25, and QThread.start() *)
MidiPlayer(events) == [is_playing |-> FALSE, phase |-> "started", left |-> Len(events)]

(* MidiPlayer.stop, lines 45-46 *)
MidiPlayer_stop(th) == [th EXCEPT !.is_playing = FALSE]

(* one step of MidiPlayer.run, lines 27-43: the flag is raised on entry and
   tested at the top of the loop only, before the sleep that precedes an event *)
MidiPlayer_run(th) ==
    CASE th.phase = "started"  -> [th EXCEPT !.is_playing = TRUE, !.phase = "loop"]
      [] th.phase = "loop"     -> IF th.left = 0 \/ ~th.is_playing
                                  THEN [th EXCEPT !.phase = "finished"]
                                  ELSE [th EXCEPT !.phase = "sleeping"]
      [] th.phase = "sleeping" -> [th EXCEPT !.phase = "loop", !.left = @ - 1]
      [] OTHER                 -> th

(* QThread.wait(): the caller is blocked until run() has returned *)
RECURSIVE MidiPlayer_wait(_)
MidiPlayer_wait(th) ==
    IF th.phase = "finished" THEN th ELSE MidiPlayer_wait(MidiPlayer_run(th))

Alive(threads) == {i \in DOMAIN threads : threads[i].phase # "finished"}

(* the +-0.5 s onset window of update_gui, piano4 lines 685-696 *)
current_expected(events, elapsed) ==
    {events[i].note : i \in {k \in DOMAIN events :
        /\ \A j \in 1..k : events[j].time <= elapsed + HalfSecond
        /\ elapsed - HalfSecond <= events[k].time
        /\ events[k].type = "note_on"}}

(* stop_playing, piano4 lines 605-622 *)
p4_stop_playing(S) ==
    LET S1 == [S EXCEPT !.is_playing = FALSE, !.is_paused = FALSE, !.expected_notes = {}]
        S2 == IF S1.midi_player # 0
              THEN [S1 EXCEPT !.player_threads[S1.midi_player] =
                                  MidiPlayer_wait(MidiPlayer_stop(@)),
                              !.midi_player = 0]
              ELSE S1
        S3 == all_notes_off(S2)
    IN  [S3 EXCEPT !.play_enabled = TRUE, !.pause_enabled = FALSE, !.stop_enabled = FALSE,
                   !.preview_enabled = (S3.midi_file # "none" \/ S3.note_events # <<>>)]

(* start_playing, piano4 lines 568-591 *)
p4_start_playing(S) ==
    IF S.midi_file = "none" /\ S.note_events = <<>> THEN S
    ELSE LET S1 == IF S.is_paused
                   THEN [S EXCEPT !.is_paused = FALSE,
                                  !.current_time = @ + (S.now - S.pause_time)]
                   ELSE [S EXCEPT !.current_time = S.now, !.score = 0,
                                  !.expected_notes = {}]
             S2 == [S1 EXCEPT !.is_playing = TRUE]
             S3 == IF S2.is_previewing
                   THEN [S2 EXCEPT !.player_threads = Append(@, MidiPlayer(S2.note_events)),
                                   !.midi_player = Len(S2.player_threads) + 1]
                   ELSE S2
         IN  [S3 EXCEPT !.play_enabled = FALSE, !.pause_enabled = TRUE,
                        !.stop_enabled = TRUE, !.preview_enabled = FALSE]

(* pause_playing, piano4 lines 593-603 *)
p4_pause_playing(S) ==
    IF S.is_playing
    THEN LET S1 == [S EXCEPT !.is_playing = FALSE, !.is_paused = TRUE, !.pause_time = S.now]
             S2 == IF S1.midi_player # 0
                   THEN [S1 EXCEPT !.player_threads[S1.midi_player] = MidiPlayer_stop(@)]
                   ELSE S1
         IN  [S2 EXCEPT !.play_enabled = TRUE, !.pause_enabled = FALSE]
    ELSE S

(* toggle_preview, piano4 lines 634-646 *)
p4_toggle_preview(S) ==
    IF S.midi_file = "none" /\ S.note_events = <<>> THEN S
    ELSE IF S.is_previewing
    THEN p4_stop_playing([S EXCEPT !.is_previewing = FALSE])
    ELSE p4_start_playing([S EXCEPT !.is_previewing = TRUE])

(* load_midi_file, piano4 lines 490-506 *)
p4_load_midi_file(S, f) ==
    LET events == process_midi_file_p4(FileContent(f))
        S1 == [S EXCEPT !.midi_file = f, !.note_events = events,
                        !.max_possible_score = CountNoteOn(events)]
    IN  [p4_stop_playing(S1) EXCEPT !.play_enabled = TRUE, !.preview_enabled = TRUE]

(* handle_note_on, piano4 lines 454-472 *)
p4_handle_note_on(S, n, velocity) ==
    LET S1 == IF S.is_playing /\ ~S.is_previewing /\ n \in S.expected_notes
              THEN update_score([S EXCEPT !.score = @ + 1])
              ELSE S
    IN  [Capture(S1, "note_on", n, velocity) EXCEPT !.playing_notes = @ \union {n}]

(* handle_note_off, piano4 lines 474-488 *)
p4_handle_note_off(S, n) == [Capture(S, "note_off", n, 0) EXCEPT !.playing_notes = @ \ {n}]

p4_Dispatch(S, ev) ==
    IF ev.type = "note_on" /\ ev.velocity > 0
    THEN p4_handle_note_on(S, ev.note, ev.velocity)
    ELSE p4_handle_note_off(S, ev.note)

RECURSIVE p4_DispatchAll(_, _, _)
p4_DispatchAll(S, evs, i) ==
    IF i > Len(evs) THEN S ELSE p4_DispatchAll(p4_Dispatch(S, evs[i]), evs, i + 1)

(* update_gui, piano4 lines 664-706 *)
update_gui(S, polled) ==
    LET S1 == p4_DispatchAll(S, polled, 1)
    IN  IF ~S1.is_playing \/ (S1.midi_file = "none" /\ S1.note_events = <<>>) THEN S1
        ELSE LET elapsed == IF ~S1.is_paused THEN S1.now - S1.current_time
                            ELSE S1.pause_time - S1.current_time
                 S2 == [S1 EXCEPT !.expected_notes = current_expected(S1.note_events, elapsed)]
             IN  IF S2.note_events = <<>> THEN [S2 EXCEPT !.fault = TRUE]
                 ELSE IF elapsed > Last(S2.note_events).time + Seconds(GraceSeconds)
                 THEN [p4_stop_playing(S2) EXCEPT !.is_previewing = FALSE]
                 ELSE S2

P4Tick ==
    /\ Running
    /\ \E polled \in SeqsUpTo(DeviceEvents, MaxPolled) :
          /\ polled \in PolledBatches
          /\ LET S == update_gui(Enter(Cur, "update_gui"), polled)
             IN  S.score <= ScoreCap /\ Commit(S)

P4MidiCallback ==
    /\ Running
    /\ midi_input = "rtmidi"
    /\ \E ev \in DeviceEvents :
          LET S == p4_Dispatch(Enter(Cur, "midi_callback"), ev)
          IN  S.score <= ScoreCap /\ Len(S.recorded_events) <= MaxCaptured /\ Commit(S)

P4PlayButton ==
    /\ Running
    /\ play_enabled
    /\ is_previewing => Len(player_threads) < MaxPlayers
    /\ Commit(p4_start_playing(Enter(Cur, "start_playing")))

P4PauseButton ==
    /\ Running
    /\ pause_enabled
    /\ Commit(p4_pause_playing(Enter(Cur, "pause_playing")))

P4StopButton ==
    /\ Running
    /\ stop_enabled
    /\ Commit(p4_stop_playing(Enter(Cur, "stop_playing")))

P4PreviewButton ==
    /\ Running
    /\ preview_enabled
    /\ ~is_previewing => Len(player_threads) < MaxPlayers
    /\ Commit(p4_toggle_preview(Enter(Cur, "toggle_preview")))

(* a song whose one note is held for two seconds, and an empty one *)
HeldSongFiles == {"held", "empty"}

P4LoadMidiFile ==
    /\ Running
    /\ \E f \in HeldSongFiles : Commit(p4_load_midi_file(Enter(Cur, "load_midi_file"), f))

(* the composer's answers: items "note duration" that parse, and items that
   do not (note_str.split() or float() raises) *)
GoodItem == [ok |-> TRUE, note |-> 64, duration |-> Seconds(1)]

BadItem == [ok |-> FALSE, note |-> 0, duration |-> 0]

Compositions == {<<GoodItem>>, <<GoodItem, BadItem>>, <<BadItem>>}

(* the loop of generate_composition, piano4 lines 737-755: the events
   appended before the first item that fails to parse, and whether one did *)
RECURSIVE ParseComposition(_, _, _, _)
ParseComposition(items, i, events, at) ==
    IF i > Len(items) THEN [events |-> events, raised |-> FALSE]
    ELSE IF ~items[i].ok THEN [events |-> events, raised |-> TRUE]
    ELSE ParseComposition(items, i + 1,
             events \o <<NoteEvent("note_on", items[i].note, 64, at),
                         NoteEvent("note_off", items[i].note, 0,
                                   at + items[i].duration)>>,
             at + items[i].duration)

(* generate_composition, piano4 lines 717-767, for an answer of the server *)
generate_composition(S, items) ==
    LET parsed == ParseComposition(items, 1, <<>>, 0)
    IN  IF parsed.raised
        THEN [S EXCEPT !.note_events = parsed.events]
        ELSE [S EXCEPT !.note_events = SortedByTime(parsed.events),
                       !.max_possible_score = CountNoteOn(parsed.events),
                       !.midi_file = "none",
                       !.play_enabled = TRUE, !.preview_enabled = TRUE]

P4GenerateWith(items) ==
    /\ Running
    /\ Commit(generate_composition(Enter(Cur, "generate_composition"), items))

P4GenerateButton == \E items \in Compositions : P4GenerateWith(items)

(* a MidiPlayer thread takes its next step *)
P4PlayerRuns ==
    /\ Running
    /\ \E i \in Alive(player_threads) :
          Commit([Enter(Cur, "MidiPlayer_run")
                     EXCEPT !.player_threads[i] = MidiPlayer_run(@)])

AdvanceP4 == now < Seconds(MaxPlayerSteps) /\ Advance

NextP4 ==
    \/ AdvanceP4
    \/ P4Tick
    \/ P4MidiCallback
    \/ P4PlayButton
    \/ P4PauseButton
    \/ P4StopButton
    \/ P4PreviewButton
    \/ P4LoadMidiFile
    \/ P4PlayerRuns

(* the session of piano4 with the rtmidi callback as its input device *)
InitP4 == Init /\ midi_input = "rtmidi"

SpecP4 == InitP4 /\ [][NextP4]_vars

(* toggle_recording, piano4 lines 648-662, with MidiRecorder.start and stop,
   lines 53-68; record_note_on and record_note_off are called under
   is_recording only, when start_time is set *)
p4_toggle_recording(S, path_chosen) ==
    IF S.is_recording
    THEN LET S1 == [S EXCEPT !.is_recording = FALSE]
         IN  IF path_chosen
             THEN [S1 EXCEPT !.written = <<MidiRecorder_save(S1.recorded_events)>>]
             ELSE S1
    ELSE [S EXCEPT !.is_recording = TRUE, !.recorded_events = <<>>,
                   !.recording_start_time = S.now]

P4RecordButton ==
    /\ Running
    /\ \E path_chosen \in BOOLEAN :
          Commit(p4_toggle_recording(Enter(Cur, "toggle_recording"), path_chosen))

(* the session of piano4 with the recorder *)
NextRecP4 ==
    \/ AdvanceRec
    \/ P4MidiCallback
    \/ P4RecordButton

SpecRecP4 == InitP4 /\ [][NextRecP4]_vars

(* the session of piano4 with the composer: songs are loaded and generated,
   played, paused and stopped *)
NextGen ==
    \/ AdvanceP4
    \/ P4Tick
    \/ P4PlayButton
    \/ P4PauseButton
    \/ P4StopButton
    \/ P4LoadMidiFile
    \/ P4GenerateButton

SpecGen == InitP4 /\ [][NextGen]_vars

----------------------------------------------------------------------------
(* The quiz of PianoLearningApp_upd_5.py, answered on an rtmidi keyboard *)

(* the keys E, G#, B and D# above middle C: one key of each pitch class of
   Emaj7 *)
QuizPitches == {64, 68, 71, 75}

(* the learner answers the question on the keyboard *)
QuizNote ==
    /\ mode = "Jazz Theory Mode"
    /\ \E p \in QuizPitches :
          MidiCallbackWith([type |-> "note_on", note |-> p, velocity |-> 100])

(* a session in which the learner answers one quiz question *)
NextSolve ==
    \/ SwitchMode
    \/ NextButtonOne
    \/ QuizNote
    \/ RevealFires

SpecSolve == InitP4 /\ [][NextSolve]_vars

----------------------------------------------------------------------------
(* Relaxation Mode: RandomModePlayer of random_mode_player.py, mode "Mixed".
   The accompaniment notes (lines 212-218) are sent and silenced with the
   chord notes and are kept in the same set here. *)

ChordNotes == {48, 52}

ImprovNotes == {72}

Callback(kind, note, cycle) == [kind |-> kind, note |-> note, cycle |-> cycle]

(* all_notes_off, lines 243-251 *)
rp_all_notes_off(R) ==
    [R EXCEPT !.sounding = IF rtmidi_output
                           THEN @ \ (R.current_chord_notes \union R.current_improv_notes)
                           ELSE @,
              !.current_chord_notes = {},
              !.current_improv_notes = {}]

(* play_next, lines 164-230: silence the last cycle, send the chord, schedule
   the improvisation notes and the all_notes_off of this cycle *)
play_next(R) ==
    IF ~R.is_playing \/ ~rtmidi_output THEN R
    ELSE LET R1 == rp_all_notes_off(R)
             c  == R.cycle + 1
         IN  [R1 EXCEPT !.cycle = c,
                        !.current_chord_notes = ChordNotes,
                        !.current_improv_notes = ImprovNotes,
                        !.sounding = @ \union ChordNotes,
                        !.pending = @ \union {Callback("play_improv_note", n, c) : n \in ImprovNotes}
                                      \union {Callback("all_notes_off", 0, c)}]

(* stop, lines 78-82 *)
rp_stop(R) == rp_all_notes_off([R EXCEPT !.is_playing = FALSE])

(* start_random_mode, lines 60-76 *)
start_random_mode(R) ==
    LET R1 == IF R.is_playing THEN rp_stop(R) ELSE R
    IN  play_next([R1 EXCEPT !.is_playing = TRUE])

(* play_improv_note, lines 232-236 *)
play_improv_note(R, cb) ==
    IF R.is_playing /\ rtmidi_output
    THEN [R EXCEPT !.sounding = @ \union {cb.note},
                   !.pending = @ \union {Callback("stop_improv_note", cb.note, cb.cycle)}]
    ELSE R

(* stop_improv_note, lines 238-241 *)
stop_improv_note(R, cb) ==
    IF rtmidi_output /\ cb.note \in R.current_improv_notes
    THEN [R EXCEPT !.sounding = @ \ {cb.note}]
    ELSE R

RunCallback(R, cb) ==
    IF cb.kind = "play_improv_note" THEN play_improv_note(R, cb)
    ELSE IF cb.kind = "stop_improv_note" THEN stop_improv_note(R, cb)
    ELSE rp_all_notes_off(R)

RelaxStep(R, cb) ==
    /\ random_player' = R
    /\ callback_fired' = cb
    /\ UNCHANGED <<appVars, fnVars>>

(* the learner selects Relaxation Mode (upd_5 lines 359-369) *)
EnterRelaxation ==
    /\ ~random_player.is_playing
    /\ random_player.cycle < MaxCycles
    /\ RelaxStep(start_random_mode(random_player), NoCallback)

(* the learner selects another mode (upd_5 lines 348, 358, 379) *)
LeaveRelaxation ==
    /\ random_player.is_playing
    /\ RelaxStep(rp_stop(random_player), NoCallback)

(* the player's periodic timer fires (lines 43-44): stop() stops it *)
PlayNextFires ==
    /\ random_player.is_playing
    /\ random_player.cycle < MaxCycles
    /\ RelaxStep(play_next(random_player), NoCallback)

(* a QTimer.singleShot callback fires.  The all_notes_off of a cycle is due
   3 to 6 s after its play_next (line 229), the next play_next after
   get_next_interval() ms (lines 98-125, about 2 s), so either may come first. *)
CallbackFires ==
    \E cb \in random_player.pending :
        RelaxStep(RunCallback([random_player EXCEPT !.pending = @ \ {cb}], cb), cb)

NextRelax ==
    \/ EnterRelaxation
    \/ LeaveRelaxation
    \/ PlayNextFires
    \/ CallbackFires

SpecRelax == Init /\ [][NextRelax]_vars

----------------------------------------------------------------------------
(* Properties *)

Elapsed == now - current_time

LastEventTime == Last(note_events).time

NoteOnEvent(p) == [type |-> "note_on", note |-> p, velocity |-> 100]

(* the interval-containment rule, stated on the timeline *)
ActiveNotes(events, elapsed) ==
    {p \in {events[i].note : i \in DOMAIN events} :
        \E i \in DOMAIN events :
            /\ events[i].type = "note_on" /\ events[i].note = p
            /\ events[i].time <= elapsed
            /\ LET offs == {j \in (i + 1)..Len(events) :
                               events[j].type = "note_off" /\ events[j].note = p}
               IN  offs = {} \/ events[Min(offs)].time > elapsed}

ScenarioA == process_midi_file(FileContent("scenarioA"))

(* C1: the set a Song-mode tick computes for a timeline and an elapsed time
   is the set of pitches with a NoteOn at or before the elapsed time whose
   next NoteOff in the timeline, if any, is after it; in scenario A (C4 on
   [0,1) s, E4 on [1,2) s) that is {60} at 0 s and 0.5 s, {64} at 1 s and
   1.5 s, nothing at 2 s. *)
C1_ActiveSetIsIntervalContainment ==
    /\ fn_op = "update_playback" => fn_active = ActiveNotes(fn_events, fn_elapsed)
    /\ currently_playing(ScenarioA, 0) = {60}
    /\ currently_playing(ScenarioA, HalfSecond) = {60}
    /\ currently_playing(ScenarioA, Seconds(1)) = {64}
    /\ currently_playing(ScenarioA, 3 * HalfSecond) = {64}
    /\ currently_playing(ScenarioA, Seconds(2)) = {}

(* a tick at the very onset of E4, after C4 has ended *)
C1_Witness ==
    /\ fn_op = "update_playback"
    /\ fn_active = {64}
    /\ \E i \in DOMAIN fn_events :
          /\ fn_events[i].type = "note_on" /\ fn_events[i].note = 64
          /\ fn_events[i].time = fn_elapsed
    /\ \E i \in DOMAIN fn_events :
          /\ fn_events[i].type = "note_on" /\ fn_events[i].note = 60
          /\ fn_events[i].time < fn_elapsed

(* C2: a live note-on of pitch p, delivered by the rtmidi callback or read
   by the tick's poll, adds exactly 1 to score when is_playing holds,
   is_previewing does not and p is in expected_notes, and leaves score
   unchanged in every other case. *)
C2_NoteOnScoresIffExpected ==
    [][\A p \in Pitch :
          (\/ last_op' = "midi_callback" /\ MidiCallbackWith(NoteOnEvent(p))
           \/ last_op' = "update_playback" /\ TickWith(<<NoteOnEvent(p)>>))
             => IF is_playing /\ ~is_previewing /\ p \in expected_notes
                THEN score' = score + 1
                ELSE score' = score]_vars

(* a press of the expected pitch during a playback, which scored *)
C2_Witness ==
    /\ last_op = "midi_callback"
    /\ score = 1 /\ is_playing /\ ~is_previewing
    /\ 64 \in expected_notes /\ 64 \in playing_notes

(* C3: on every step that keeps the timeline, score <= maxScore is kept *)
C3_ScoreNeverExceedsMax ==
    [][(note_events' = note_events /\ score <= max_possible_score)
          => score' <= max_possible_score']_vars

(* C4: a pause records the instant, nothing moves the clock while paused,
   and the elapsed time right after a resume is the elapsed time at the
   pause instant. *)
C4_ClockFrozenAcrossPause ==
    [][/\ (~is_paused /\ is_paused') => (pause_time' = now' /\ current_time' = current_time)
       /\ (is_paused /\ is_paused') => UNCHANGED <<pause_time, current_time>>
       /\ (is_paused /\ ~is_paused' /\ is_playing')
             => now' - current_time' = pause_time - current_time]_vars

(* just resumed after a pause that lasted, from a position past the start *)
C4_Witness ==
    /\ last_op = "start_playing"
    /\ is_playing /\ ~is_paused
    /\ pause_time < now
    /\ Elapsed > 0
    /\ current_time > 0

(* C5: every NoteOn of an ingested timeline has a later NoteOff of the same
   pitch (no NoteOn is left dangling). *)
C5_EveryNoteOnIsClosed ==
    (fn_src = "file" /\ fn_op = "process_midi_file")
       => \A i \in DOMAIN fn_events :
             fn_events[i].type = "note_on"
                => \E j \in (i + 1)..Len(fn_events) :
                      fn_events[j].type = "note_off" /\ fn_events[j].note = fn_events[i].note

TickDuration == Tick2Second(1, DefaultTicksPerBeat, DefaultTempo)

Abs(x) == IF x < 0 THEN -x ELSE x

(* C6: ingesting the file written from a recording gives the recording's
   (pitch, on/off) sequence, nothing added or removed, each time within one
   tick of the recorded one. *)
C6_RoundTrip ==
    (fn_src = "rec" /\ fn_op \in {"process_midi_file", "process_midi_file_p4"})
       => /\ Len(fn_events) = Len(fn_rec)
          /\ \A i \in DOMAIN fn_rec :
                i \in DOMAIN fn_events
                   => /\ fn_events[i].type = fn_rec[i].type
                      /\ fn_events[i].note = fn_rec[i].note
                      /\ Abs(fn_events[i].time - fn_rec[i].time) <= TickDuration

(* C7: at a tick while is_playing on a non-empty timeline, playback stops
   and preview is left exactly when elapsed is more than 2 s after the last
   event; otherwise the tick leaves the state Playing. *)
C7_CompletionAtAnyTick ==
    [][(last_op' = "update_playback" /\ is_playing /\ note_events # <<>>)
          => IF Elapsed > LastEventTime + Seconds(GraceSeconds)
             THEN ~is_playing' /\ ~is_paused' /\ ~is_previewing'
             ELSE is_playing' /\ ~is_paused' /\ is_previewing' = is_previewing]_vars

(* C8: a step of the rtmidi callback changes none of the shared fields *)
C8_CallbackOnlyQueues ==
    [][last_op' = "midi_callback"
          => UNCHANGED <<score, playing_notes, recorded_events, expected_notes>>]_vars

(* C9: after a file load the score is 0, the clock is stopped and no
   recording is in flight *)
C9_ReplaceResetsSession ==
    last_op = "load_midi_file"
       => /\ score = 0
          /\ ~is_playing /\ ~is_paused
          /\ ~is_recording /\ recorded_events = <<>>

(* C10: stop, file load and close each send a note-off on every pitch to
   every attached sink *)
C10_AllNotesOffOnStopSwitchClose ==
    last_op \in {"stop_playing", "load_midi_file", "closeEvent"}
       => all_off_to = AttachedSinks(Cur)

(* C11: a reveal callback that fires while a later one is still outstanding
   belongs to a superseded item (Next was pressed again after it was
   scheduled); when its text is not the answer of the item now shown, it
   leaves the answer label as it is. *)
C11_StaleRevealIsNoOp ==
    [][(last_op' = "reveal_answer" /\ Len(reveal_pending) > 1
           /\ Head(reveal_pending) # theory_item)
          => answer_label' = answer_label]_vars

(* C12: at most one MidiPlayer thread of piano4 has not finished *)
C12_OnePreviewTask ==
    Cardinality(Alive(player_threads)) <= 1

(* C13: the score goes down only by the reset of a start from Stopped (Play
   or Preview pressed with is_playing and is_paused both false); a start in
   Playing or Paused (the resume), a pause, a stop, and a tick that delivers
   no press (its completion included) leave the score as it is. *)
C13_ScoreResetOnlyByStartFromStopped ==
    [][/\ score' < score
          => /\ score' = 0
             /\ last_op' \in {"start_playing", "toggle_preview"}
             /\ ~is_playing /\ ~is_paused
       /\ (last_op' \in {"start_playing", "toggle_preview"} /\ (is_playing \/ is_paused))
          => score' = score
       /\ last_op' \in {"pause_playing", "stop_playing"} => score' = score
       /\ (last_op' = "update_playback" /\ TickWith(<<>>)) => score' = score]_vars

C13_Witness ==
    /\ last_op = "start_playing"
    /\ is_playing /\ score > 0

(* C14: every path into stop_playing (the Stop button, the load of a file,
   the Preview button pressed during a preview), taken in whichever of
   Playing, Paused, Previewing or Stopped the session is in and with whatever
   sinks are attached, ends with is_playing and is_paused false and the
   expected set empty, and raises nothing. *)
C14_StopIsTotal ==
    [][(\/ last_op' \in {"stop_playing", "load_midi_file"}
        \/ last_op' = "toggle_preview" /\ is_previewing)
          => /\ ~is_playing' /\ ~is_paused'
             /\ expected_notes' = {}
             /\ ~fault']_vars

C14_Witness ==
    /\ last_op = "stop_playing"
    /\ is_previewing /\ pause_time > 0
    /\ ~is_playing /\ ~is_paused /\ expected_notes = {}

(* C15: while is_previewing is true, a note-on delivered by the input device
   (through the rtmidi callback or the tick's poll) leaves the score as it is. *)
C15_NoScoringDuringPreview ==
    [][(is_previewing /\ last_op' \in {"midi_callback", "update_playback"})
          => score' = score]_vars

C15_Witness ==
    /\ last_op = "midi_callback"
    /\ is_previewing /\ is_playing
    /\ 64 \in expected_notes /\ 64 \in playing_notes
    /\ score = 0

(* C16: in piano4 the set a press is scored against, as a tick leaves it, is
   the interval-containment active set of the elapsed time. *)
C16_ScoredSetIsIntervalContainment ==
    (last_op = "update_gui" /\ is_playing /\ ~is_paused)
       => expected_notes = ActiveNotes(note_events, Elapsed)

(* C17: a press that a tick polls while the song plays for scoring is scored
   against the active set of that tick's elapsed time: the score goes up
   exactly when the pressed pitch is active at the elapsed time of the tick. *)
C17_PressScoredAgainstThisTick ==
    [][\A p \in Pitch :
          (/\ last_op' = "update_playback"
           /\ mode = "Song Mode" /\ is_playing /\ ~is_paused /\ ~is_previewing
           /\ TickWith(<<NoteOnEvent(p)>>))
             => (score' = score + 1 <=> p \in ActiveNotes(note_events, Elapsed))]_vars

(* the note messages of a track left open at its end: the last message of
   the pitch in the track is a note_on of positive velocity; ticks is the
   cumulative tick position of that note_on *)
OpenAtEndOfTrack(track) ==
    LET RECURSIVE TicksAt(_)
        TicksAt(i) == IF i = 0 THEN 0 ELSE TicksAt(i - 1) + track[i].time
        IsNote(i) == track[i].type \in {"note_on", "note_off"}
    IN  {[note |-> track[i].note, ticks |-> TicksAt(i)] :
            i \in {k \in DOMAIN track :
                      /\ track[k].type = "note_on" /\ track[k].velocity > 0
                      /\ \A j \in (k + 1)..Len(track) :
                            IsNote(j) => track[j].note # track[k].note}}

(* C18: for every track of an ingested file without tempo messages and every
   pitch left open at the end of that track, the timeline holds a note_off of
   the pitch 2.0 s after the onset of the open note. *)
C18_SyntheticOffPerTrack ==
    (fn_src = "file" /\ fn_op = "process_midi_file" /\ get_tempo(fn_file) = DefaultTempo)
       => \A k \in DOMAIN fn_file.tracks :
             \A o \in OpenAtEndOfTrack(fn_file.tracks[k]) :
                \E i \in DOMAIN fn_events :
                   fn_events[i] = NoteEvent("note_off", o.note, 0,
                                            Tick2Second(o.ticks, fn_file.ticks_per_beat,
                                                        DefaultTempo)
                                                + Seconds(SyntheticOffSeconds))

(* the messages of a file in file order, each with its track, its index in
   the track and its cumulative tick position in the track *)
Placed(file) ==
    UNION {{[track |-> k, index |-> i] : i \in DOMAIN file.tracks[k]} : k \in DOMAIN file.tracks}

TicksOf(file, m) ==
    LET track == file.tracks[m.track]
        RECURSIVE TicksAt(_)
        TicksAt(i) == IF i = 0 THEN 0 ELSE TicksAt(i - 1) + track[i].time
    IN  TicksAt(m.index)

MsgOf(file, m) == file.tracks[m.track][m.index]

IsNoteMsg(msg) == msg.type \in {"note_on", "note_off"}

EventType(msg) == IF msg.type = "note_on" /\ msg.velocity > 0 THEN "note_on" ELSE "note_off"

(* a timeline event of the message's pitch and kind at the given time *)
HasEventAt(events, msg, t) ==
    \E i \in DOMAIN events :
        /\ events[i].type = EventType(msg)
        /\ events[i].note = msg.note
        /\ events[i].time = t

(* C19: a note message that no set_tempo precedes, in its own track or in an
   earlier one, is placed at the time its cumulative ticks give under the
   default tempo of 500000, whatever set_tempo follows it. *)
C19_DefaultTempoUntilSetTempo ==
    (fn_src = "file" /\ fn_op = "process_midi_file")
       => \A m \in Placed(fn_file) :
             (/\ IsNoteMsg(MsgOf(fn_file, m))
              /\ \A q \in Placed(fn_file) :
                    (q.track < m.track \/ (q.track = m.track /\ q.index < m.index))
                       => MsgOf(fn_file, q).type # "set_tempo")
                => HasEventAt(fn_events, MsgOf(fn_file, m),
                              Tick2Second(TicksOf(fn_file, m), fn_file.ticks_per_beat,
                                          DefaultTempo))

(* the time process_midi_file gives the note message m when its track is the
   only track of the file *)
TimeInOwnTrack(file, m) ==
    LET track == file.tracks[m.track]
        alone == MidiFile(file.ticks_per_beat, <<track>>)
        st0 == [events |-> <<>>, tempo |-> get_tempo(alone), active |-> <<>>, track_time |-> 0]
        k == Cardinality({j \in 1..m.index : IsNoteMsg(track[j])})
    IN  IngestTracks(st0, alone, 1).events[k].time

(* C20: the time of every note message of an ingested file is the time its
   own track gives it: the other tracks of the file, their tempo messages
   included, do not change it. *)
C20_TracksAreIndependent ==
    (fn_src = "file" /\ fn_op = "process_midi_file")
       => \A m \in Placed(fn_file) :
             IsNoteMsg(MsgOf(fn_file, m))
                => HasEventAt(fn_events, MsgOf(fn_file, m), TimeInOwnTrack(fn_file, m))

(* the place of the k-th parsed event in a stable sort by time: after every
   event of an earlier time and every earlier-parsed event of its own time *)
StableRank(raw, k) ==
    Cardinality({j \in DOMAIN raw : raw[j].time < raw[k].time})
        + Cardinality({j \in 1..k : raw[j].time = raw[k].time})

(* C21: an ingested timeline is sorted ascending by time, holds the parsed
   events and nothing else, and events of equal time keep their parse order
   (track order, message order, synthetic note-offs last). *)
C21_TimelineStableSorted ==
    fn_op = "process_midi_file"
       => /\ IsSortedByTime(fn_events)
          /\ Len(fn_events) = Len(ParseOrder(fn_file))
          /\ \A k \in DOMAIN ParseOrder(fn_file) :
                fn_events[StableRank(ParseOrder(fn_file), k)] = ParseOrder(fn_file)[k]

(* a timeline the sort had to reorder, with two distinct events at one time *)
C21_Witness ==
    /\ fn_op = "process_midi_file"
    /\ fn_events # ParseOrder(fn_file)
    /\ \E i \in 1..(Len(fn_events) - 1) :
          /\ fn_events[i].time = fn_events[i + 1].time
          /\ fn_events[i] # fn_events[i + 1]

(* C22: max_possible_score is the number of note_on events of the timeline
   held. *)
C22_MaxScoreCountsNoteOns ==
    max_possible_score = CountNoteOn(note_events)

(* the file with every note_on of velocity 0 written as a note_off *)
WithNoteOffs(file) ==
    MidiFile(file.ticks_per_beat,
             [k \in DOMAIN file.tracks |->
                [i \in DOMAIN file.tracks[k] |->
                    LET msg == file.tracks[k][i]
                    IN  IF msg.type = "note_on" /\ msg.velocity = 0
                        THEN NoteOffMsg(msg.note, msg.time)
                        ELSE msg]])

(* C23: the timeline ingested from a file is the one ingested from the same
   file with its velocity-0 note_on messages written as note_off messages;
   every note_on event has velocity >= 1 and every note_off velocity 0. *)
C23_VelocityZeroIsNoteOff ==
    fn_op = "process_midi_file"
       => /\ fn_events = process_midi_file(WithNoteOffs(fn_file))
          /\ \A i \in DOMAIN fn_events :
                IF fn_events[i].type = "note_on"
                THEN fn_events[i].velocity >= 1
                ELSE fn_events[i].type = "note_off" /\ fn_events[i].velocity = 0

(* a file whose note is closed by a note_on of velocity 0: the timeline ends
   with the NoteOff it gives and no synthetic one *)
C23_Witness ==
    /\ fn_op = "process_midi_file"
    /\ \E m \in Placed(fn_file) :
          MsgOf(fn_file, m).type = "note_on" /\ MsgOf(fn_file, m).velocity = 0
    /\ Len(fn_events) = 2
    /\ fn_events[2] = NoteEvent("note_off", 60, 0, Seconds(1))

(* the note messages of the one track of a written file, in order *)
WrittenNotes(file) == SelectSeq(file.tracks[1], IsNoteMsg)

(* the tick position of the j-th written note message *)
RECURSIVE WrittenTicks(_, _)
WrittenTicks(notes, j) == IF j = 0 THEN 0 ELSE WrittenTicks(notes, j - 1) + notes[j].time

(* C24: in a file written by a serializer from a sorted event sequence, no
   note message has a negative delta and the tick position of the j-th note
   message is secondsToTicks of the j-th event's time. *)
C24_WrittenTicksAreExact ==
    fn_op \in {"save_recording_to_midi", "MidiRecorder_save", "export_to_midi"}
       => /\ Len(WrittenNotes(fn_file)) = Len(fn_rec)
          /\ \A j \in DOMAIN fn_rec :
                /\ WrittenNotes(fn_file)[j].time >= 0
                /\ WrittenTicks(WrittenNotes(fn_file), j)
                      = Second2Tick(fn_rec[j].time, fn_file.ticks_per_beat, DefaultTempo)

(* C25: a written file has one track; its first message is a set_tempo at
   delta time 0, its last an end_of_track, and the messages between them are
   note messages. *)
C25_WrittenFileFormat ==
    fn_op \in {"save_recording_to_midi", "MidiRecorder_save", "export_to_midi"}
       => /\ Len(fn_file.tracks) = 1
          /\ LET track == fn_file.tracks[1]
             IN  /\ Len(track) >= 2
                 /\ track[1].type = "set_tempo" /\ track[1].time = 0
                 /\ track[Len(track)].type = "end_of_track"
                 /\ \A i \in 2..(Len(track) - 1) : IsNoteMsg(track[i])

(* the events a handler appended to the recording buffer in a step *)
Captured(before, after) == SubSeq(after, Len(before) + 1, Len(after))

(* C26: a start of recording empties the buffer and sets the origin to now;
   the buffer changes otherwise only while a recording is active, by live
   note events appended with time = now - origin; a file is written only by
   the stop of a recording and holds the notes of the buffer of that
   recording, one message per captured event. *)
C26_RecorderCapturesOnlyWhileActive ==
    [][/\ (last_op' = "toggle_recording" /\ ~is_recording)
          => /\ is_recording'
             /\ recorded_events' = <<>>
             /\ recording_start_time' = now
             /\ written' = written
       /\ (last_op' # "toggle_recording" /\ recorded_events' # recorded_events)
          => /\ is_recording /\ is_recording'
             /\ last_op' \in {"midi_callback", "update_playback"}
             /\ Len(recorded_events') > Len(recorded_events)
             /\ SubSeq(recorded_events', 1, Len(recorded_events)) = recorded_events
             /\ \A i \in DOMAIN Captured(recorded_events, recorded_events') :
                   Captured(recorded_events, recorded_events')[i].time
                      = now - recording_start_time
       /\ written' # written
          => /\ last_op' = "toggle_recording" /\ is_recording /\ ~is_recording'
             /\ Len(WrittenNotes(written'[1])) = Len(recorded_events)
             /\ \A j \in DOMAIN recorded_events :
                   /\ WrittenNotes(written'[1])[j].type = recorded_events[j].type
                   /\ WrittenNotes(written'[1])[j].note = recorded_events[j].note]_vars

(* a second recording has started after a first one was written: its buffer
   is empty although notes were captured and played before *)
C26_Witness ==
    /\ last_op = "toggle_recording"
    /\ is_recording /\ recorded_events = <<>>
    /\ written # <<>> /\ WrittenNotes(written[1]) # <<>>
    /\ recording_start_time > 0

(* C27: the stop of a recording whose buffer is empty ends the recording and
   writes no file. *)
C27_EmptyStopWritesNothing ==
    [][(last_op' = "toggle_recording" /\ is_recording /\ recorded_events = <<>>)
          => /\ ~is_recording'
             /\ written' = written
             /\ ~fault']_vars

(* C28: a generated composition that fails to parse leaves the timeline
   held, its maximum score and the playback state as they were. *)
C28_FailedLoadKeepsTimeline ==
    [][\A items \in Compositions :
          (/\ ParseComposition(items, 1, <<>>, 0).raised
           /\ last_op' = "generate_composition"
           /\ P4GenerateWith(items))
             => UNCHANGED <<note_events, max_possible_score, midi_file, is_playing,
                            is_paused, is_previewing, current_time, pause_time, score,
                            expected_notes>>]_vars

(* C29: a stop completes its state updates whether or not a sink command
   fails: playback is stopped, all-notes-off has gone to every attached sink
   that works, and the buttons are those of the Stopped state. *)
C29_SinkFailureTolerated ==
    [][last_op' = "stop_playing"
          => /\ ~is_playing' /\ ~is_paused'
             /\ play_enabled' /\ ~pause_enabled' /\ ~stop_enabled'
             /\ preview_enabled' = (midi_file' # "none")]_vars

(* C30: in every state of the session a pause that finds is_playing false
   (Stopped or already Paused), and a start or a preview toggle that finds no
   file loaded, return the state they were given; a Play or Preview pressed
   with no file loaded changes nothing of the session. *)
C30_InapplicableOperationsAreNoOps ==
    [][/\ ~is_playing => pause_playing(Cur) = Cur
       /\ midi_file = "none" => start_playing(Cur) = Cur /\ toggle_preview(Cur) = Cur
       /\ (last_op' \in {"start_playing", "toggle_preview"} /\ midi_file = "none")
          => UNCHANGED <<current_time, pause_time, is_playing, is_paused, is_previewing,
                         score, expected_notes, note_events, fault>>]_vars

(* Preview pressed before any file was loaded *)
C30_Witness ==
    /\ last_op = "toggle_preview"
    /\ midi_file = "none"
    /\ ~is_playing /\ ~is_previewing

(* C31: reset is idempotent: from every reachable state, stop_playing
   (with the display resets it performs) called twice in a row leaves the
   session after the second call identical to the session after the first *)
C31_StopTwiceIsStopOnce ==
    LET once == stop_playing(Enter(Cur, "stop_playing"))
    IN  stop_playing(Enter(once, "stop_playing")) = once

(* a stop has just ended a scored run that had a note expected, and a
   second stop would change nothing *)
C31_Witness ==
    /\ last_op = "stop_playing"
    /\ ~is_playing /\ ~is_paused
    /\ score > 0
    /\ stop_playing(Enter(Cur, "stop_playing")) = Cur

(* label (in tenths of a percent) is 100 * sc / mx to one decimal place, and
   0 when mx is 0 *)
IsPercentage(label, sc, mx) ==
    IF mx = 0 THEN label = 0 ELSE 2 * Abs(label * mx - 1000 * sc) <= mx

(* C32: the percentage update_score reports is 100 * score / maxScore to one
   decimal place, and 0 when maxScore is 0: checked on update_score applied
   to every reachable session state *)
C32_ReportedPercentage ==
    IsPercentage(update_score(Cur).score_label, score, max_possible_score)

(* C38: in every reachable state the percentage shown equals
   100 * score / maxScore of the current score state, also after a restart
   from Stopped and after a new timeline is loaded *)
C38_ShownPercentageIsCurrent ==
    IsPercentage(score_label, score, max_possible_score)

(* C33: on every tick of a running Song-mode preview that follows a tick of
   the same run (expected_notes is then the timeline's active set at that
   tick), the sink is sent a note-on for exactly the pitches that became
   active since, and a note-off for exactly the pitches that ceased to be
   active, whatever live presses and releases came in between: one command
   per timeline NoteOn and per timeline NoteOff *)
C33_PreviewSendsOncePerTimelineEvent ==
    [][\A polled \in PolledBatches :
          (/\ last_op' = "update_playback"
           /\ mode = "Song Mode" /\ is_playing /\ ~is_paused /\ is_previewing
           /\ midi_file # "none" /\ keys_alias = "expected_notes"
           /\ TickWith(polled))
             => LET S1 == DispatchAll(Cur, polled, 1)
                    active == ActiveNotes(note_events, Elapsed)
                IN  /\ preview_note_ons(S1, Elapsed) = active \ expected_notes
                    /\ preview_note_offs(S1, Elapsed) = expected_notes \ active]_vars

(* C34: a delayed callback of Relaxation Mode (all_notes_off,
   play_improv_note, stop_improv_note) that was scheduled by a play_next cycle
   older than the current one, also one of a session that stop ended, is a
   no-op: it leaves what sounds and the note sets of the current cycle as
   they are *)
C34_StaleCallbackIsNoOp ==
    [][(callback_fired' # NoCallback /\ callback_fired'.cycle < random_player.cycle)
          => /\ random_player'.sounding = random_player.sounding
             /\ random_player'.current_chord_notes = random_player.current_chord_notes
             /\ random_player'.current_improv_notes = random_player.current_improv_notes]_vars

(* C35: whenever playback is Stopped (is_playing and is_paused both false)
   is_previewing is false, so that a Play from Stopped starts a scored run *)
C35_StoppedIsNotPreviewing ==
    (~is_playing /\ ~is_paused) => ~is_previewing

(* C36: the periodic tick stays scheduled for the whole life of the session,
   whatever operations occur in any mode, solving a Jazz Theory quiz
   included *)
C36_TickStaysScheduled ==
    ~closed => timer_active

(* C37: a tick never faults for any loaded timeline, a file with no note
   events included: no exception leaves a tick that runs with a file loaded *)
C37_TickNeverFaults ==
    [][(last_op' = "update_playback" /\ midi_file # "none") => ~fault']_vars

(* C39: once MidiPlayer.stop() has been called the thread sends no further
   event.  A thread whose loop is under way with its is_playing flag down has
   been stopped (run raised the flag on entry), so: a step in which such a
   thread sends an event (one fewer is left to send) does not occur *)
C39_NoSendAfterStop ==
    [][\A i \in DOMAIN player_threads :
          (/\ player_threads[i].phase \in {"loop", "sleeping"}
           /\ player_threads'[i].left < player_threads[i].left)
             => player_threads[i].is_playing]_vars

(* C40: in the thread-based preview, a resume after a pause continues the
   audio from the paused position: every event the preview thread of the
   resumed playback has still to send is a timeline event whose time is at
   least the elapsed time at the pause *)
C40_ResumeContinuesFromPause ==
    [][(/\ last_op' = "start_playing"
        /\ is_paused /\ is_previewing
        /\ midi_player' # 0)
          => LET th == player_threads'[midi_player']
             IN  \A k \in (Len(note_events) - th.left + 1)..Len(note_events) :
                     note_events[k].time >= pause_time - current_time]_vars

====
